---- MODULE Spec2Model ----
(***************************************************************************)
(* Model of the MNLI + HANS experiment of optml-proj:                      *)
(*   src/src/dataset/datamodule.py   ExperimentDataModule                  *)
(*   src/src/model/nlitransformer.py BertForNLI                            *)
(*                                                                         *)
(* Five specifications share the variables of the module:                  *)
(*   SpecClassify  _process_mnli applied to one raw MNLI sample            *)
(*   SpecSetup     ExperimentDataModule.setup and its dataloaders          *)
(*   SpecOptim     BertForNLI.configure_optimizers                         *)
(*   SpecEpochEnd  the epoch-end hooks applied to one epoch's outputs      *)
(*   Spec          the trainer loop driving the step and epoch-end hooks   *)
(***************************************************************************)
EXTENDS Integers, Sequences, FiniteSets, TLC

VARIABLES
    sample,          \* the raw MNLI row handed to _process_mnli
    new_attributes,  \* what _process_mnli returned for it (Null before the call)
    corpus,          \* the raw corpora load_dataset returns: the rows of the four splits
    dm,              \* the ExperimentDataModule object: its configuration and attributes
    setup_state,     \* "new", "ready" (setup returned) or "error" (setup raised)
    loaders,         \* the DataLoaders handed to the trainer, and how far each was iterated
    batch,           \* the batch a DataLoader produced last (Null before the first)
    hparams,         \* BertForNLI.hparams, as far as configure_optimizers reads them
    estimated_stepping_batches,   \* self.trainer.estimated_stepping_batches
    configured,      \* what configure_optimizers returned or raised (Null before the call)
    pc,              \* where the trainer loop stands
    current_epoch,   \* self.current_epoch
    global_step,     \* self.global_step: optimizer steps taken
    weights,         \* the classifier's weights, as the class it currently predicts
    loggers,         \* self.loggers
    train_outputs,   \* the training_step results of the epoch
    outputs,         \* the validation_step results of the epoch, one list per dataloader
    logged,          \* the scalar metrics self.log received in the epoch
    sink,            \* the calls the logging/artifact sink completed
    failed,          \* the sink call that raised (Null while none did)
    last_step        \* the step function the last validation_step ran, and for which source

classifyVars == <<sample, new_attributes>>
setupVars == <<corpus, dm, setup_state, loaders, batch>>
optimVars == <<hparams, estimated_stepping_batches, configured>>
trainerVars ==
    <<pc, current_epoch, global_step, weights, loggers, train_outputs, outputs,
      logged, sink, failed, last_step>>

\* Python's None, as a record so that it compares with the records it stands in for
Null == [none |-> TRUE]

(***************************************************************************)
(* Bounds of the model.                                                    *)
(***************************************************************************)
MaxTextLen == 2
MaxMnliRows == 2      \* rows of an MNLI split
MaxHansRows == 2      \* rows of a HANS split
MaxBatchSize == 2
MaxWarmupSteps == 2   \* the largest warmup_steps tried
MaxTrainSteps == 2    \* the largest estimated_stepping_batches tried
MaxEpochs == 3        \* epochs the trainer runs (max_epochs)

(***************************************************************************)
(* src.constants (not part of the sources at hand): the closed enumeration *)
(* of sample categories and the HANS heuristic ids.                        *)
(***************************************************************************)
STANDARD == 0
TRIVIAL == 1
NOISE == 2
HEURISTIC_E == 3
HEURISTIC_NE == 4
SampleType == {STANDARD, TRIVIAL, NOISE, HEURISTIC_E, HEURISTIC_NE}

SampleTypeName(t) ==
    CASE t = STANDARD -> "standard"
      [] t = TRIVIAL -> "trivial"
      [] t = NOISE -> "noise"
      [] t = HEURISTIC_E -> "heuristic_e"
      [] t = HEURISTIC_NE -> "heuristic_ne"

HEURISTIC_TO_INTEGER ==
    [h \in {"lexical_overlap", "subsequence", "constituent"} |->
        CASE h = "lexical_overlap" -> 0
          [] h = "subsequence" -> 1
          [] h = "constituent" -> 2]

Labels == 0 .. 2   \* entailment, neutral, contradiction

(***************************************************************************)
(* Raw text and the tokenizer.  A text is a sequence of words; the         *)
(* tokenizer of PRETRAINED_MODEL_ID = "bert-base-uncased" lower-cases, so  *)
(* two different texts can have the same token ids.                        *)
(***************************************************************************)
Words == {"A", "a", "b"}

SeqsUpTo(S, n) == UNION {[1 .. k -> S] : k \in 0 .. n}

Texts == SeqsUpTo(Words, MaxTextLen)

CLS == 101
SEP == 102

TokenId(w) ==
    CASE w \in {"A", "a"} -> 1
      [] w = "b" -> 2

\* self.tokenizer(text, add_special_tokens=False)['input_ids']
TokenizeNoSpecial(text) == [i \in 1 .. Len(text) |-> TokenId(text[i])]

\* self.tokenizer(premise, hypothesis): [CLS] premise [SEP] hypothesis [SEP]
TokenizePair(premise, hypothesis) ==
    LET p == TokenizeNoSpecial(premise)
        h == TokenizeNoSpecial(hypothesis)
        ids == <<CLS>> \o p \o <<SEP>> \o h \o <<SEP>>
    IN [input_ids |-> ids,
        token_type_ids |-> [i \in 1 .. Len(ids) |-> IF i <= Len(p) + 2 THEN 0 ELSE 1],
        attention_mask |-> [i \in 1 .. Len(ids) |-> 1]]

Elems(s) == {s[i] : i \in 1 .. Len(s)}

\* all(token in tokenized_premise for token in tokenized_hypothesis)
AllTokensInPremise(tokenized_premise, tokenized_hypothesis) ==
    \A i \in 1 .. Len(tokenized_hypothesis) :
        \E j \in 1 .. Len(tokenized_premise) :
            tokenized_premise[j] = tokenized_hypothesis[i]

\* The mutant compares the raw words instead of the token ids.
SampleTypeOfRawWords(s) ==
    IF s.premise = s.hypothesis
    THEN IF s.label = 0 THEN TRIVIAL ELSE NOISE
    ELSE IF Elems(s.hypothesis) \subseteq Elems(s.premise)
         THEN IF s.label = 0 THEN HEURISTIC_E ELSE HEURISTIC_NE
         ELSE STANDARD

\* The mutant tests the label the wrong way round in the equal-text branch.
SampleTypeOfSwapped(s) ==
    IF s.premise = s.hypothesis
    THEN IF s.label = 0 THEN NOISE ELSE TRIVIAL
    ELSE IF AllTokensInPremise(TokenizeNoSpecial(s.premise), TokenizeNoSpecial(s.hypothesis))
         THEN IF s.label = 0 THEN HEURISTIC_E ELSE HEURISTIC_NE
         ELSE STANDARD

\* The branches of _process_mnli that choose sample_type.
SampleTypeOf(s) ==
    IF s.premise = s.hypothesis
    THEN IF s.label = 0 THEN TRIVIAL ELSE NOISE
    ELSE IF AllTokensInPremise(TokenizeNoSpecial(s.premise), TokenizeNoSpecial(s.hypothesis))
         THEN IF s.label = 0 THEN HEURISTIC_E ELSE HEURISTIC_NE
         ELSE STANDARD

\* _process_mnli(sample): the new columns of the row
ProcessMnliResult(s) ==
    LET tok == TokenizePair(s.premise, s.hypothesis)
    IN [type |-> SampleTypeOf(s),
        input_ids |-> tok.input_ids,
        token_type_ids |-> tok.token_type_ids,
        attention_mask |-> tok.attention_mask]

RawSamples == [premise : Texts, hypothesis : Texts, label : Labels]

_process_mnli ==
    /\ new_attributes = Null
    /\ new_attributes' = ProcessMnliResult(sample)
    /\ UNCHANGED sample


(***************************************************************************)
(* The raw corpora.  Row i of a split is a fixed row of a small pool, so a *)
(* split is determined by its size.                                        *)
(***************************************************************************)
MnliPool ==
    << [premise |-> <<"a", "b">>, hypothesis |-> <<"a", "b">>, label |-> 0],
       [premise |-> <<"A", "b">>, hypothesis |-> <<"a">>, label |-> 2],
       [premise |-> <<"a">>, hypothesis |-> <<"b">>, label |-> 1],
       [premise |-> <<"b">>, hypothesis |-> <<"b">>, label |-> 1],
       [premise |-> <<"b", "a">>, hypothesis |-> <<"A">>, label |-> 0],
       [premise |-> <<"b">>, hypothesis |-> <<"a", "b">>, label |-> 0] >>

HansPool ==
    << [premise |-> <<"a", "b">>, hypothesis |-> <<"b">>, label |-> 0,
        heuristic |-> "lexical_overlap"],
       [premise |-> <<"b", "a">>, hypothesis |-> <<"a">>, label |-> 1,
        heuristic |-> "subsequence"],
       [premise |-> <<"a", "a">>, hypothesis |-> <<"a">>, label |-> 1,
        heuristic |-> "constituent"],
       [premise |-> <<"b", "b">>, hypothesis |-> <<"b">>, label |-> 1,
        heuristic |-> "lexical_overlap"],
       [premise |-> <<"a", "b">>, hypothesis |-> <<"a">>, label |-> 0,
        heuristic |-> "subsequence"],
       [premise |-> <<"b", "a">>, hypothesis |-> <<"b">>, label |-> 0,
        heuristic |-> "constituent"] >>

PoolRow(pool, i) == pool[((i - 1) % Len(pool)) + 1]

\* the first n rows of load_dataset("multi_nli")[split], load_dataset("hans", split=...)
LoadMnli(n) == [i \in 1 .. n |-> PoolRow(MnliPool, i)]
LoadHans(n) == [i \in 1 .. n |-> PoolRow(HansPool, i)]

\* tokenize_hans, row by row: the tokenizer's columns, the heuristic id and the type
tokenize_hans(row) ==
    LET tok == TokenizePair(row.premise, row.hypothesis)
    IN [input_ids |-> tok.input_ids,
        token_type_ids |-> tok.token_type_ids,
        attention_mask |-> tok.attention_mask,
        label |-> row.label,
        heuristic |-> HEURISTIC_TO_INTEGER[row.heuristic],
        type |-> IF row.label = 0 THEN HEURISTIC_E ELSE HEURISTIC_NE]

\* map(self._process_mnli) keeps the row's columns and adds the new ones;
\* set_format then exposes input_ids, token_type_ids, attention_mask, label, type
MnliFormatted(row) ==
    LET a == ProcessMnliResult(row)
    IN [input_ids |-> a.input_ids,
        token_type_ids |-> a.token_type_ids,
        attention_mask |-> a.attention_mask,
        label |-> row.label,
        type |-> a.type,
        origin |-> "mnli"]

\* a HANS-train row seen through the MNLI format after concatenate_datasets
HansAsMnli(row) ==
    [input_ids |-> row.input_ids,
     token_type_ids |-> row.token_type_ids,
     attention_mask |-> row.attention_mask,
     label |-> row.label,
     type |-> row.type,
     origin |-> "hans"]

\* set_format(columns=[input_ids, token_type_ids, attention_mask, label, heuristic])
HansFormatted(row) ==
    [input_ids |-> row.input_ids,
     token_type_ids |-> row.token_type_ids,
     attention_mask |-> row.attention_mask,
     label |-> row.label,
     heuristic |-> row.heuristic]

\* load_dataset("hans", ...).map(tokenize_hans) over the rows of a split
MapTokenizeHans(rows) == [i \in 1 .. Len(rows) |-> tokenize_hans(rows[i])]

\* hans_dataset_validation.set_format(...) over the rows of the split
MapHansFormatted(rows) == [i \in 1 .. Len(rows) |-> HansFormatted(rows[i])]

\* mnli_dataset.map(self._process_mnli) and set_format over the rows of a split
MapMnliFormatted(rows) == [i \in 1 .. Len(rows) |-> MnliFormatted(rows[i])]

\* the selected HANS-train rows as concatenate_datasets appends them
MapHansAsMnli(rows) == [i \in 1 .. Len(rows) |-> HansAsMnli(rows[i])]

Shuffles(n) == {p \in [1 .. n -> 1 .. n] : \A i, j \in 1 .. n : p[i] = p[j] => i = j}

\* The mutant clamps the requested count to the size of the dataset.
SelectClamped(rows, n) ==
    [raised |-> FALSE,
     rows |-> SubSeq(rows, 1, IF n <= Len(rows) THEN n ELSE Len(rows))]

\* The mutant takes one row too few.
SelectOneLess(rows, n) ==
    IF n > Len(rows)
    THEN [raised |-> TRUE, rows |-> << >>]
    ELSE [raised |-> FALSE, rows |-> SubSeq(rows, 1, n - 1)]

\* Dataset.select(range(n)) on a shuffled dataset: an index past the end raises
Select(rows, n) ==
    IF n > Len(rows)
    THEN [raised |-> TRUE, rows |-> << >>]
    ELSE [raised |-> FALSE, rows |-> SubSeq(rows, 1, n)]

\* ExperimentDataModule.setup on the corpus c with hans-train shuffled by p:
\* the data module it leaves behind, and whether it returned or raised
SetupOutcome(c, d, p) ==
    LET hans_validation ==
            MapHansFormatted(MapTokenizeHans(c.hans_validation))
        mnli ==
            [train |-> MapMnliFormatted(c.mnli_train),
             validation_matched |->
                 MapMnliFormatted(c.mnli_validation_matched)]
        hans_train == MapTokenizeHans(c.hans_train)
        shuffled == [i \in 1 .. Len(hans_train) |-> hans_train[p[i]]]
        selected == Select(shuffled, d.num_hans_train_examples)
    IN IF d.num_hans_train_examples > 0
       THEN IF selected.raised
            THEN [state |-> "error",
                  dm |-> [d EXCEPT !.hans_dataset_validation = hans_validation,
                                   !.mnli_dataset = mnli]]
            ELSE [state |-> "ready",
                  dm |-> [d EXCEPT
                      !.hans_dataset_validation = hans_validation,
                      !.mnli_dataset =
                          [mnli EXCEPT !.train =
                              mnli.train \o MapHansAsMnli(selected.rows)],
                      !.collator = "DataCollatorWithPadding"]]
       ELSE [state |-> "ready",
             dm |-> [d EXCEPT !.hans_dataset_validation = hans_validation,
                              !.mnli_dataset = mnli,
                              !.collator = "DataCollatorWithPadding"]]

setup ==
    /\ setup_state = "new"
    /\ \E p \in Shuffles(Len(corpus.hans_train)) :
          LET o == SetupOutcome(corpus, dm, p)
          IN /\ dm' = o.dm
             /\ setup_state' = o.state
    /\ UNCHANGED <<corpus, loaders, batch>>

\* a DataLoader over `rows`: the indices it has still to yield and the batches yielded
DataLoader(rows, batch_size, shuffle) ==
    [dataset |-> rows, batch_size |-> batch_size, shuffle |-> shuffle,
     remaining |-> 1 .. Len(rows), yielded |-> 0]

\* ExperimentDataModule.train_dataloader; the trainer calls it once setup has returned
train_dataloader ==
    /\ setup_state = "ready"
    /\ loaders.train = Null
    /\ loaders' = [loaders EXCEPT !.train =
           DataLoader(dm.mnli_dataset.train, dm.batch_size, TRUE)]
    /\ UNCHANGED <<corpus, dm, setup_state, batch>>

\* ExperimentDataModule.val_dataloader
val_dataloader ==
    /\ setup_state = "ready"
    /\ loaders.val[1] = Null
    /\ loaders' = [loaders EXCEPT !.val =
           << DataLoader(dm.mnli_dataset.validation_matched, dm.batch_size, FALSE),
              DataLoader(dm.hans_dataset_validation, dm.batch_size, FALSE) >>]
    /\ UNCHANGED <<corpus, dm, setup_state, batch>>

Min(a, b) == IF a <= b THEN a ELSE b

\* the index sets a DataLoader may yield next: the next batch_size indices in order,
\* or any batch_size of the remaining ones when it shuffles
NextIndices(dl) ==
    LET k == Min(dl.batch_size, Cardinality(dl.remaining))
    IN IF dl.shuffle
       THEN {ix \in SUBSET dl.remaining : Cardinality(ix) = k}
       ELSE {{i \in dl.remaining : Cardinality({j \in dl.remaining : j < i}) < k}}

Yield(dl, ix) ==
    [dl EXCEPT !.remaining = dl.remaining \ ix, !.yielded = dl.yielded + 1]

RECURSIVE SortedSeq(_)
SortedSeq(S) ==
    IF S = {} THEN << >>
    ELSE LET m == CHOOSE x \in S : \A y \in S : x <= y
         IN <<m>> \o SortedSeq(S \ {m})

RowsAt(dataset, ix) == LET order == SortedSeq(ix) IN [k \in 1 .. Len(order) |-> dataset[order[k]]]

Max(a, b) == IF a >= b THEN a ELSE b

RECURSIVE Longest(_)
Longest(rows) ==
    IF rows = << >> THEN 0 ELSE Max(Len(Head(rows).input_ids), Longest(Tail(rows)))

Pad(s, n) == s \o [i \in 1 .. n - Len(s) |-> 0]

\* self.collator(x).data with padding='longest': a dict of columns; label becomes labels
collator_fn(rows) ==
    LET n == Longest(rows)
        base == [input_ids |-> [i \in 1 .. Len(rows) |-> Pad(rows[i].input_ids, n)],
                 token_type_ids |-> [i \in 1 .. Len(rows) |-> Pad(rows[i].token_type_ids, n)],
                 attention_mask |-> [i \in 1 .. Len(rows) |-> Pad(rows[i].attention_mask, n)],
                 labels |-> [i \in 1 .. Len(rows) |-> rows[i].label]]
    IN IF "heuristic" \in DOMAIN rows[1]
       THEN [c \in DOMAIN base \cup {"heuristic"} |->
                IF c = "heuristic" THEN [i \in 1 .. Len(rows) |-> rows[i].heuristic]
                ELSE base[c]]
       ELSE [c \in DOMAIN base \cup {"type"} |->
                IF c = "type" THEN [i \in 1 .. Len(rows) |-> rows[i].type]
                ELSE base[c]]

\* the batch the DataLoader dl yields for the indices ix, and its batch index
Collate(dl, ix, source) ==
    [source |-> source, batch_idx |-> dl.yielded, data |-> collator_fn(RowsAt(dl.dataset, ix))]

\* the trainer draws the next training batch
NextTrainBatch ==
    /\ loaders.train # Null
    /\ loaders.train.remaining # {}
    /\ \E ix \in NextIndices(loaders.train) :
          /\ batch' = Collate(loaders.train, ix, "train")
          /\ loaders' = [loaders EXCEPT !.train = Yield(loaders.train, ix)]
    /\ UNCHANGED <<corpus, dm, setup_state>>

\* the trainer draws the next validation batch of either source
NextValBatch ==
    /\ loaders.val[1] # Null
    /\ \E d \in 1 .. 2 :
          /\ loaders.val[d].remaining # {}
          /\ \E ix \in NextIndices(loaders.val[d]) :
                /\ batch' = Collate(loaders.val[d], ix, IF d = 1 THEN "val_mnli" ELSE "val_hans")
                /\ loaders' = [loaders EXCEPT !.val[d] = Yield(loaders.val[d], ix)]
    /\ UNCHANGED <<corpus, dm, setup_state>>


(***************************************************************************)
(* BertForNLI.configure_optimizers.  An optional hyperparameter is << >>   *)
(* for None and <<v>> for the value v; warmup_ratio is given in percent.   *)
(***************************************************************************)
None == << >>
Some(v) == <<v>>
IsNone(x) == x = << >>

\* Python's truth value of an optional number: None and 0 are false
Truthy(x) == x # << >> /\ x[1] # 0

\* the names of model.named_parameters(), as their dotted components
NamedParameters ==
    { <<"bert", "encoder", "dense", "weight">>,
      <<"bert", "encoder", "dense", "bias">>,
      <<"bert", "encoder", "LayerNorm", "weight">>,
      <<"bert", "encoder", "LayerNorm", "bias">>,
      <<"classifier", "weight">>,
      <<"classifier", "bias">> }

no_decay == { <<"bias">>, <<"LayerNorm", "weight">> }

\* nd in n, for dotted names
NameContains(n, nd) ==
    \E i \in 1 .. Len(n) :
        /\ i + Len(nd) - 1 <= Len(n)
        /\ SubSeq(n, i, i + Len(nd) - 1) = nd

optimizer_grouped_parameters ==
    << [name |-> "1_w-decay",
        params |-> {n \in NamedParameters : ~(\E nd \in no_decay : NameContains(n, nd))},
        weight_decay |-> "hparams.weight_decay"],
       [name |-> "2_no-decay",
        params |-> {n \in NamedParameters : \E nd \in no_decay : NameContains(n, nd)},
        weight_decay |-> "0.0"] >>

ValueError(text, value) == [raised |-> TRUE, error |-> "ValueError", text |-> text, value |-> value]

\* the warmup checks: the warmup step count num/den, or the error raised
WarmupOf(hp, train_steps) ==
    IF ~IsNone(hp.warmup_ratio) /\ ~IsNone(hp.warmup_steps)
    THEN ValueError("Either warmup_steps or warmup_ratio should be given, but not both.", "")
    ELSE IF Truthy(hp.warmup_steps)
    THEN [raised |-> FALSE, num |-> hp.warmup_steps[1], den |-> 1]
    ELSE IF Truthy(hp.warmup_ratio)
    THEN [raised |-> FALSE, num |-> train_steps * hp.warmup_ratio[1], den |-> 100]
    ELSE ValueError("Either warmup_steps or warmup_ratio should be given, but none were given.", "")

\* what configure_optimizers returns or raises
ConfigureOptimizers(hp, train_steps) ==
    IF hp.optimizer_name \notin {"adamw", "adam"}
    THEN ValueError("Invalid optimizer_name given: ", hp.optimizer_name)
    ELSE LET optimizer ==
                 [class |-> IF hp.optimizer_name = "adamw" THEN "AdamW" ELSE "Adam",
                  param_groups |-> optimizer_grouped_parameters]
             warmup == WarmupOf(hp, train_steps)
         IN IF warmup.raised
            THEN warmup
            ELSE IF hp.scheduler_name \in {"linear", "polynomial"}
            THEN [raised |-> FALSE,
                  optimizers |-> <<optimizer>>,
                  schedulers |->
                      << [scheduler |-> hp.scheduler_name,
                          num_warmup_steps |-> [num |-> warmup.num, den |-> warmup.den],
                          num_training_steps |-> train_steps,
                          interval |-> "step",
                          frequency |-> 1] >>]
            ELSE ValueError("Invalid scheduler_name given: ", hp.optimizer_name)

Optional(S) == {None} \cup {Some(v) : v \in S}

configure_optimizers ==
    /\ configured = Null
    /\ configured' = ConfigureOptimizers(hparams, estimated_stepping_batches)
    /\ UNCHANGED <<hparams, estimated_stepping_batches>>


(***************************************************************************)
(* BertForNLI: the step functions.  The classifier is a black box; with    *)
(* weights w it predicts class w, and an optimizer step may change w to    *)
(* any class.  Numbers that the code averages are kept as num/den, and     *)
(* the mean of no numbers, numpy's NaN, is 0/0.                            *)
(***************************************************************************)
NaN == [num |-> 0, den |-> 0]
Scalar(n) == [num |-> n, den |-> 1]

RECURSIVE Sum(_)
Sum(s) == IF s = << >> THEN 0 ELSE Head(s) + Sum(Tail(s))

\* numpy / torch .mean()
Mean(s) == IF Len(s) = 0 THEN NaN ELSE [num |-> Sum(s), den |-> Len(s)]

\* self.loss_criterion (FocalLoss), per sample: small for the predicted class
LossOf(pred, label) == IF pred = label THEN 1 ELSE 3

KeyError(key) == [raised |-> TRUE, error |-> "KeyError", key |-> key]

\* forward + argmax(dim=-1)
Preds(data, w) == [i \in 1 .. Len(data.labels) |-> w]

mnli_step(data, w) ==
    IF "type" \notin DOMAIN data THEN KeyError("type")
    ELSE LET preds == Preds(data, w)
             loss == [i \in 1 .. Len(preds) |-> LossOf(preds[i], data.labels[i])]
             true_preds == [i \in 1 .. Len(preds) |-> IF preds[i] = data.labels[i] THEN 1 ELSE 0]
         IN [raised |-> FALSE,
             mnli_loss |-> Mean(loss),
             mnli_datapoint_loss |-> loss,
             mnli_datapoint_type |-> data.type,
             mnli_acc |-> Mean(true_preds),
             mnli_true_preds |-> true_preds,
             mnli_datapoint_count |-> Len(preds)]

hans_step(data, w) ==
    IF "heuristic" \notin DOMAIN data THEN KeyError("heuristic")
    ELSE LET preds == Preds(data, w)
         IN [raised |-> FALSE,
             hans_loss |-> [i \in 1 .. Len(preds) |-> LossOf(preds[i], data.labels[i])],
             preds |-> preds,
             labels |-> data.labels,
             heuristic |-> data.heuristic]

(***************************************************************************)
(* What a hook does besides returning is a sequence of events: a scalar    *)
(* handed to self.log, or a call of the logging/artifact sink.             *)
(***************************************************************************)
LogEvent(key, value) == [kind |-> "log", key |-> key, value |-> value]
SinkEvent(op, key) == [kind |-> "sink", key |-> <<op>> \o key, value |-> Scalar(0)]

WandbLoggers(ls) == SelectSeq(ls, LAMBDA l : l = "WandbLogger")

RECURSIVE Flatten(_)
Flatten(ss) == IF ss = << >> THEN << >> ELSE Head(ss) \o Flatten(Tail(ss))

global_rank == 0

\* batch_idx == 0 or batch_idx == -1 and self.global_rank == 0 and self.current_epoch in [0, 1]
DebugDumpCondition(batch_idx, epoch) ==
    batch_idx = 0 \/ (batch_idx = -1 /\ global_rank = 0 /\ epoch \in {0, 1})

\* _log_batch_for_debugging: one log_text per WandbLogger
_log_batch_for_debugging(log_key, ls) ==
    [i \in 1 .. Len(WandbLoggers(ls)) |-> SinkEvent("log_text", log_key)]

\* the events of training_step after mnli_step returned `results`
TrainingStepEvents(results, batch_idx, epoch, ls) ==
    << LogEvent(<<"Train", "mnli_loss">>, results.mnli_loss),
       LogEvent(<<"Train", "mnli_acc">>, results.mnli_acc),
       LogEvent(<<"Train", "mnli_datapoint_count">>, Scalar(results.mnli_datapoint_count)) >>
    \o (IF DebugDumpCondition(batch_idx, epoch)
        THEN _log_batch_for_debugging(<<"Train", "Batch">>, ls)
        ELSE << >>)

\* The mutant routes source 1 to the MNLI step and source 0 to the HANS step.
ValidationStepResultSwapped(data, dataloader_idx, w) ==
    IF dataloader_idx = 1
    THEN [step |-> "mnli_step", results |-> mnli_step(data, w)]
    ELSE [step |-> "hans_step", results |-> hans_step(data, w)]

\* validation_step: the step function chosen by dataloader_idx, and its results
ValidationStepResult(data, dataloader_idx, w) ==
    IF dataloader_idx = 0
    THEN [step |-> "mnli_step", results |-> mnli_step(data, w)]
    ELSE [step |-> "hans_step", results |-> hans_step(data, w)]

\* the events of validation_step after the step function returned `results`
ValidationStepEvents(results, batch_idx, dataloader_idx, epoch, ls) ==
    (IF dataloader_idx = 0
     THEN << LogEvent(<<"Valid", "mnli_loss">>, results.mnli_loss),
             LogEvent(<<"Valid", "mnli_acc">>, results.mnli_acc),
             LogEvent(<<"Valid", "mnli_datapoint_count">>,
                      Scalar(results.mnli_datapoint_count)) >>
     ELSE << >>)
    \o (IF DebugDumpCondition(batch_idx, epoch)
        THEN _log_batch_for_debugging(
                 <<"Valid", "Batch", IF dataloader_idx = 0 THEN "dataloader-0" ELSE "dataloader-1">>,
                 ls)
        ELSE << >>)

(***************************************************************************)
(* BertForNLI: the epoch-end hooks.                                        *)
(***************************************************************************)
\* The mutant leaves the last step's output out of the concatenation.
CatWithoutLast(results, column) ==
    Flatten([i \in 1 .. Len(results) - 1 |-> results[i][column]])

\* torch.cat([x[column] for x in results])
Cat(results, column) == Flatten([i \in 1 .. Len(results) |-> results[i][column]])

\* a[mask]
Masked(a, mask) == LET ix == SortedSeq({i \in 1 .. Len(a) : mask[i]})
                   IN [k \in 1 .. Len(ix) |-> a[ix[k]]]

SampleTypes == <<STANDARD, TRIVIAL, NOISE, HEURISTIC_E, HEURISTIC_NE>>

\* mask = types == sample_type.value
TypeMask(types, sample_type) == [i \in 1 .. Len(types) |-> types[i] = sample_type]

\* _log_mnli_metrics_per_sample_type: for every sample type, the two means over its mask
_log_mnli_metrics_per_sample_type(prefix, types, losses, true_preds) ==
    Flatten([k \in 1 .. Len(SampleTypes) |->
        LET mask == TypeMask(types, SampleTypes[k])
            name == SampleTypeName(SampleTypes[k])
        IN << LogEvent(<<prefix, "mnli", name, "loss">>, Mean(Masked(losses, mask))),
              LogEvent(<<prefix, "mnli", name, "accuracy">>, Mean(Masked(true_preds, mask))) >>])

\* _log_loss_histogram: per WandbLogger, the histogram, the plot, and the table if asked
_log_loss_histogram(split, metric_name, log_df, ls) ==
    Flatten([i \in 1 .. Len(WandbLoggers(ls)) |->
        << SinkEvent("experiment.log", <<split, "Verbose", metric_name, "histogram">>),
           SinkEvent("experiment.log", <<split, "Verbose", metric_name, "histogram_seaborn">>) >>
        \o (IF log_df
            THEN <<SinkEvent("experiment.log", <<split, "Verbose", metric_name, "df">>)>>
            ELSE << >>)])

\* the upload of the epoch's table: one log_artifact per WandbLogger
LogArtifact(name, ls) ==
    [i \in 1 .. Len(WandbLoggers(ls)) |-> SinkEvent("log_artifact", name)]

\* the three arrays _mnli_epoch_end concatenates from the epoch's step outputs
MnliEpochArrays(mnli_results) ==
    [types |-> Cat(mnli_results, "mnli_datapoint_type"),
     losses |-> Cat(mnli_results, "mnli_datapoint_loss"),
     true_preds |-> Cat(mnli_results, "mnli_true_preds")]

_mnli_epoch_end(split, mnli_results, ls) ==
    LET types == MnliEpochArrays(mnli_results).types
        losses == MnliEpochArrays(mnli_results).losses
        true_preds == MnliEpochArrays(mnli_results).true_preds
    IN _log_mnli_metrics_per_sample_type(split, types, losses, true_preds)
       \o _log_loss_histogram(split, "mnli_loss", FALSE, ls)
       \o LogArtifact(<<split, "mnli_epoch_end_df">>, ls)

training_epoch_end(outs, ls) == _mnli_epoch_end("Train", outs, ls)

TargetLabels == <<"entailment", "non_entailment">>
HeuristicNames == <<"lexical_overlap", "subsequence", "constituent">>

\* The mutant computes the two means without the guard on an empty mask.
HansCombinationNoGuard(target_label, heuristic_name, preds, labels, heuristics, losses) ==
    LET mask == [i \in 1 .. Len(labels) |->
                    heuristics[i] = HEURISTIC_TO_INTEGER[heuristic_name]
                    /\ labels[i] = target_label]
        hits == [i \in 1 .. Len(labels) |-> IF preds[i] = labels[i] THEN 1 ELSE 0]
    IN << LogEvent(<<"Valid", "Hans_loss", TargetLabels[target_label + 1], heuristic_name>>,
                   Mean(Masked(losses, mask))),
          LogEvent(<<"Valid", "Hans_acc", TargetLabels[target_label + 1], heuristic_name>>,
                   Mean(Masked(hits, mask))) >>

\* the body of the loop over (target_label, heuristic): nothing when the mask is empty
HansCombination(target_label, heuristic_name, preds, labels, heuristics, losses) ==
    LET mask == [i \in 1 .. Len(labels) |->
                    heuristics[i] = HEURISTIC_TO_INTEGER[heuristic_name]
                    /\ labels[i] = target_label]
        hits == [i \in 1 .. Len(labels) |-> IF preds[i] = labels[i] THEN 1 ELSE 0]
    IN IF Sum([i \in 1 .. Len(mask) |-> IF mask[i] THEN 1 ELSE 0]) = 0
       THEN << >>
       ELSE << LogEvent(<<"Valid", "Hans_loss", TargetLabels[target_label + 1], heuristic_name>>,
                        Mean(Masked(losses, mask))),
               LogEvent(<<"Valid", "Hans_acc", TargetLabels[target_label + 1], heuristic_name>>,
                        Mean(Masked(hits, mask))) >>

validation_epoch_end(outs, ls) ==
    LET hans_results == outs[2]
        preds == Cat(hans_results, "preds")
        labels == Cat(hans_results, "labels")
        heuristics == Cat(hans_results, "heuristic")
        losses == Cat(hans_results, "hans_loss")
        hits == [i \in 1 .. Len(preds) |-> IF preds[i] = labels[i] THEN 1 ELSE 0]
    IN _mnli_epoch_end("Valid", outs[1], ls)
       \o << LogEvent(<<"Valid", "hans_loss">>, Mean(losses)),
             LogEvent(<<"Valid", "hans_acc">>, [num |-> Sum(hits), den |-> Len(preds)]),
             LogEvent(<<"Valid", "hans_count">>, Scalar(Len(preds))) >>
       \o _log_loss_histogram("Valid", "hans_loss", FALSE, ls)
       \o Flatten([t \in 1 .. 2 |->
              Flatten([h \in 1 .. Len(HeuristicNames) |->
                  HansCombination(t - 1, HeuristicNames[h], preds, labels, heuristics, losses)])])
       \o LogArtifact(<<"Valid", "hans_epoch_end_df">>, ls)

(***************************************************************************)
(* Running a hook's events.  The hook has no handler for an exception of   *)
(* the sink, so the f-th sink call raising ends the hook there.            *)
(***************************************************************************)
SinkPositions(events) == {i \in 1 .. Len(events) : events[i].kind = "sink"}

\* f = 0: no sink call raises; otherwise the sink call at position f raises
Run(events, f) ==
    IF f = 0
    THEN [raised |-> FALSE, done |-> events, failed |-> Null]
    ELSE [raised |-> TRUE, done |-> SubSeq(events, 1, f - 1), failed |-> events[f]]

Stamp(e, epoch, step, batch_idx) ==
    [key |-> e.key, value |-> e.value, epoch |-> epoch, step |-> step, batch_idx |-> batch_idx]

Logs(done, epoch, step, batch_idx) ==
    {Stamp(done[i], epoch, step, batch_idx) : i \in {j \in 1 .. Len(done) : done[j].kind = "log"}}

Sinks(done, epoch, step, batch_idx) ==
    {Stamp(done[i], epoch, step, batch_idx) : i \in {j \in 1 .. Len(done) : done[j].kind = "sink"}}

(***************************************************************************)
(* The trainer loop (an epoch: the training batches, the validation        *)
(* batches of the two sources in any interleaving, validation_epoch_end,   *)
(* training_epoch_end).  An exception of a hook propagates out of fit.     *)
(***************************************************************************)
FreshLoaders(d) ==
    [train |-> DataLoader(d.mnli_dataset.train, d.batch_size, TRUE),
     val |-> << DataLoader(d.mnli_dataset.validation_matched, d.batch_size, FALSE),
                DataLoader(d.hans_dataset_validation, d.batch_size, FALSE) >>]

\* results["loss"] = results["mnli_loss"]
WithLoss(results) ==
    [c \in DOMAIN results \cup {"loss"} |-> IF c = "loss" THEN results.mnli_loss ELSE results[c]]

\* the trainer takes the next training batch and calls training_step
TrainingStep ==
    /\ pc = "train"
    /\ \E ix \in NextIndices(loaders.train) :
          LET b == Collate(loaders.train, ix, "train")
              results == mnli_step(b.data, weights)
              events == TrainingStepEvents(results, b.batch_idx, current_epoch, loggers)
              epoch_logged == IF b.batch_idx = 0 THEN {} ELSE logged
          IN \E f \in {0} \cup SinkPositions(events) :
                LET r == Run(events, f)
                IN /\ batch' = b
                   /\ loaders' = [loaders EXCEPT !.train = Yield(loaders.train, ix)]
                   /\ logged' = epoch_logged \cup Logs(r.done, current_epoch, global_step, b.batch_idx)
                   /\ sink' = sink \cup Sinks(r.done, current_epoch, global_step, b.batch_idx)
                   /\ IF r.raised
                      THEN /\ pc' = "aborted"
                           /\ failed' = r.failed
                           /\ UNCHANGED <<train_outputs, global_step, weights>>
                      ELSE /\ train_outputs' = Append(train_outputs, WithLoss(results))
                           /\ global_step' = global_step + 1
                           /\ weights' \in Labels
                           /\ pc' = IF loaders'.train.remaining = {} THEN "validate" ELSE "train"
                           /\ UNCHANGED failed
    /\ UNCHANGED <<current_epoch, loggers, outputs, last_step>>

\* the trainer takes the next batch of one validation source and calls validation_step
ValidationStep ==
    /\ pc = "validate"
    /\ \E d \in 0 .. 1 :
          /\ loaders.val[d + 1].remaining # {}
          /\ \E ix \in NextIndices(loaders.val[d + 1]) :
                LET b == Collate(loaders.val[d + 1], ix, IF d = 0 THEN "val_mnli" ELSE "val_hans")
                    vr == ValidationStepResult(b.data, d, weights)
                IN /\ batch' = b
                   /\ loaders' = [loaders EXCEPT !.val[d + 1] = Yield(loaders.val[d + 1], ix)]
                   /\ last_step' = [dataloader_idx |-> d, batch_idx |-> b.batch_idx,
                                    step |-> vr.step]
                   /\ IF vr.results.raised
                      THEN /\ pc' = "aborted"
                           /\ UNCHANGED <<outputs, logged, sink, failed>>
                      ELSE LET events == ValidationStepEvents(vr.results, b.batch_idx, d,
                                                              current_epoch, loggers)
                           IN \E f \in {0} \cup SinkPositions(events) :
                                 LET r == Run(events, f)
                                 IN /\ logged' = logged \cup
                                           Logs(r.done, current_epoch, global_step, b.batch_idx)
                                    /\ sink' = sink \cup
                                           Sinks(r.done, current_epoch, global_step, b.batch_idx)
                                    /\ IF r.raised
                                       THEN /\ pc' = "aborted"
                                            /\ failed' = r.failed
                                            /\ UNCHANGED outputs
                                       ELSE /\ outputs' = [outputs EXCEPT ![d + 1] =
                                                              Append(@, vr.results)]
                                            /\ pc' = IF \A k \in 1 .. 2 :
                                                          loaders'.val[k].remaining = {}
                                                     THEN "validation_epoch_end"
                                                     ELSE "validate"
                                            /\ UNCHANGED failed
    /\ UNCHANGED <<current_epoch, global_step, weights, loggers, train_outputs>>

\* the trainer calls validation_epoch_end with the two lists of results
ValidationEpochEnd ==
    /\ pc = "validation_epoch_end"
    /\ LET events == validation_epoch_end(outputs, loggers)
       IN \E f \in {0} \cup SinkPositions(events) :
             LET r == Run(events, f)
             IN /\ logged' = logged \cup Logs(r.done, current_epoch, global_step, -1)
                /\ sink' = sink \cup Sinks(r.done, current_epoch, global_step, -1)
                /\ failed' = r.failed
                /\ pc' = IF r.raised THEN "aborted" ELSE "training_epoch_end"
    /\ UNCHANGED <<batch, loaders, current_epoch, global_step, weights, loggers,
                   train_outputs, outputs, last_step>>

\* the trainer calls training_epoch_end and goes on to the next epoch
TrainingEpochEnd ==
    /\ pc = "training_epoch_end"
    /\ LET events == training_epoch_end(train_outputs, loggers)
       IN \E f \in {0} \cup SinkPositions(events) :
             LET r == Run(events, f)
             IN /\ logged' = logged \cup Logs(r.done, current_epoch, global_step, -1)
                /\ sink' = sink \cup Sinks(r.done, current_epoch, global_step, -1)
                /\ failed' = r.failed
                /\ IF r.raised
                   THEN /\ pc' = "aborted"
                        /\ UNCHANGED <<current_epoch, loaders, train_outputs, outputs>>
                   ELSE /\ current_epoch' = current_epoch + 1
                        /\ pc' = IF current_epoch + 1 < MaxEpochs THEN "train" ELSE "done"
                        /\ loaders' = FreshLoaders(dm)
                        /\ train_outputs' = << >>
                        /\ outputs' = << << >>, << >> >>
    /\ UNCHANGED <<batch, global_step, weights, loggers, last_step>>

vars ==
    <<sample, new_attributes, corpus, dm, setup_state, loaders, batch,
      hparams, estimated_stepping_batches, configured, pc, current_epoch, global_step,
      weights, loggers, train_outputs, outputs, logged, sink, failed, last_step>>

Loggers == { <<"WandbLogger">>, <<"TensorBoardLogger">> }

\* the data module a configuration leaves behind when setup returns on corpus c
\* (num_hans_train_examples = 0, so the shuffle does not matter)
ReadyDataModule(c, batch_size) ==
    SetupOutcome(c,
                 [batch_size |-> batch_size, num_hans_train_examples |-> 0,
                  hans_dataset_validation |-> Null, mnli_dataset |-> Null, collator |-> Null],
                 [i \in 1 .. Len(c.hans_train) |-> i]).dm

NumBatches(n, batch_size) == (n + batch_size - 1) \div batch_size

\* the batches a DataLoader without shuffling yields, in order
Batches(rows, batch_size) ==
    [k \in 1 .. NumBatches(Len(rows), batch_size) |->
        collator_fn(SubSeq(rows, (k - 1) * batch_size + 1, Min(k * batch_size, Len(rows))))]

Exhausted(dl) ==
    [dl EXCEPT !.remaining = {}, !.yielded = NumBatches(Len(dl.dataset), dl.batch_size)]

\* every non-empty selection of rows of a pool, in the pool's order
SubPools(pool) ==
    {RowsAt(pool, ix) : ix \in (SUBSET (1 .. Len(pool))) \ {{}}}

\* the corpora of the epoch-end specification: one split is any selection of its
\* pool while the other splits have one row
EpochEndCorpora ==
    [mnli_train : SubPools(MnliPool),
     mnli_validation_matched : {LoadMnli(1)},
     hans_train : {LoadHans(1)},
     hans_validation : {LoadHans(1)}]
    \cup
    [mnli_train : {LoadMnli(1)},
     mnli_validation_matched : SubPools(MnliPool),
     hans_train : {LoadHans(1)},
     hans_validation : {LoadHans(1)}]
    \cup
    [mnli_train : {LoadMnli(1)},
     mnli_validation_matched : {LoadMnli(1)},
     hans_train : {LoadHans(1)},
     hans_validation : SubPools(HansPool)]

NextClassify == _process_mnli /\ UNCHANGED <<setupVars, optimVars, trainerVars>>

NextSetup ==
    \/ setup /\ UNCHANGED <<classifyVars, optimVars, trainerVars>>
    \/ train_dataloader /\ UNCHANGED <<classifyVars, optimVars, trainerVars>>
    \/ val_dataloader /\ UNCHANGED <<classifyVars, optimVars, trainerVars>>
    \/ NextTrainBatch /\ UNCHANGED <<classifyVars, optimVars, trainerVars>>
    \/ NextValBatch /\ UNCHANGED <<classifyVars, optimVars, trainerVars>>

NextOptim == configure_optimizers /\ UNCHANGED <<classifyVars, setupVars, trainerVars>>

NextEpochEnd ==
    \/ ValidationEpochEnd /\ UNCHANGED <<classifyVars, optimVars, corpus, dm, setup_state>>
    \/ TrainingEpochEnd /\ UNCHANGED <<classifyVars, optimVars, corpus, dm, setup_state>>

Next ==
    \/ TrainingStep /\ UNCHANGED <<classifyVars, optimVars, corpus, dm, setup_state>>
    \/ ValidationStep /\ UNCHANGED <<classifyVars, optimVars, corpus, dm, setup_state>>
    \/ ValidationEpochEnd /\ UNCHANGED <<classifyVars, optimVars, corpus, dm, setup_state>>
    \/ TrainingEpochEnd /\ UNCHANGED <<classifyVars, optimVars, corpus, dm, setup_state>>

InitClassify ==
    /\ sample \in RawSamples
    /\ new_attributes = Null
    /\ corpus = Null /\ dm = Null /\ setup_state = "new"
    /\ loaders = Null /\ batch = Null
    /\ hparams = Null /\ estimated_stepping_batches = 0 /\ configured = Null
    /\ pc = "idle" /\ current_epoch = 0 /\ global_step = 0 /\ weights = 0
    /\ loggers = << >> /\ train_outputs = << >> /\ outputs = << << >>, << >> >>
    /\ logged = {} /\ sink = {} /\ failed = Null /\ last_step = Null

InitSetup ==
    /\ corpus \in [mnli_train : {LoadMnli(n) : n \in 1 .. MaxMnliRows},
                   mnli_validation_matched : {LoadMnli(n) : n \in 1 .. MaxMnliRows},
                   hans_train : {LoadHans(n) : n \in 1 .. MaxHansRows},
                   hans_validation : {LoadHans(n) : n \in 1 .. MaxHansRows}]
    /\ dm \in [batch_size : 1 .. MaxBatchSize,
               num_hans_train_examples : 0 .. MaxHansRows + 1,
               hans_dataset_validation : {Null},
               mnli_dataset : {Null},
               collator : {Null}]
    /\ setup_state = "new"
    /\ loaders = [train |-> Null, val |-> <<Null, Null>>]
    /\ batch = Null
    /\ sample = Null /\ new_attributes = Null
    /\ hparams = Null /\ estimated_stepping_batches = 0 /\ configured = Null
    /\ pc = "idle" /\ current_epoch = 0 /\ global_step = 0 /\ weights = 0
    /\ loggers = << >> /\ train_outputs = << >> /\ outputs = << << >>, << >> >>
    /\ logged = {} /\ sink = {} /\ failed = Null /\ last_step = Null

InitOptim ==
    /\ hparams \in [optimizer_name : {"adamw", "adam", "sgd"},
                    scheduler_name : {"linear", "polynomial", "cosine"},
                    warmup_steps : Optional(0 .. MaxWarmupSteps),
                    warmup_ratio : Optional({0, 50})]
    /\ estimated_stepping_batches \in 1 .. MaxTrainSteps
    /\ configured = Null
    /\ sample = Null /\ new_attributes = Null
    /\ corpus = Null /\ dm = Null /\ setup_state = "new"
    /\ loaders = Null /\ batch = Null
    /\ pc = "idle" /\ current_epoch = 0 /\ global_step = 0 /\ weights = 0
    /\ loggers = << >> /\ train_outputs = << >> /\ outputs = << << >>, << >> >>
    /\ logged = {} /\ sink = {} /\ failed = Null /\ last_step = Null

\* the trainer after setup returned, about to take the first training batch
Init ==
    /\ corpus = [mnli_train |-> LoadMnli(MaxMnliRows),
                 mnli_validation_matched |-> LoadMnli(MaxMnliRows),
                 hans_train |-> LoadHans(MaxHansRows),
                 hans_validation |-> LoadHans(MaxHansRows)]
    /\ dm \in {ReadyDataModule(corpus, b) : b \in 1 .. MaxBatchSize}
    /\ setup_state = "ready"
    /\ loaders = FreshLoaders(dm)
    /\ batch = Null
    /\ pc = "train" /\ current_epoch = 0 /\ global_step = 0
    /\ weights \in Labels
    /\ loggers \in Loggers
    /\ train_outputs = << >> /\ outputs = << << >>, << >> >>
    /\ logged = {} /\ sink = {} /\ failed = Null /\ last_step = Null
    /\ sample = Null /\ new_attributes = Null
    /\ hparams = Null /\ estimated_stepping_batches = 0 /\ configured = Null

\* the trainer at the end of the validation pass of epoch 0: every batch of the
\* epoch was taken in dataset order and stepped with the same weights
InitEpochEnd ==
    /\ corpus \in EpochEndCorpora
    /\ dm \in {ReadyDataModule(corpus, b) : b \in 1 .. MaxBatchSize}
    /\ setup_state = "ready"
    /\ weights \in Labels
    /\ loggers \in Loggers
    /\ LET fresh == FreshLoaders(dm)
           tb == Batches(dm.mnli_dataset.train, dm.batch_size)
           vb == << Batches(dm.mnli_dataset.validation_matched, dm.batch_size),
                    Batches(dm.hans_dataset_validation, dm.batch_size) >>
           tr == [k \in 1 .. Len(tb) |-> mnli_step(tb[k], weights)]
           vr == << [k \in 1 .. Len(vb[1]) |-> ValidationStepResult(vb[1][k], 0, weights).results],
                    [k \in 1 .. Len(vb[2]) |-> ValidationStepResult(vb[2][k], 1, weights).results] >>
           te == [k \in 1 .. Len(tb) |-> TrainingStepEvents(tr[k], k - 1, 0, loggers)]
           ve == [d \in 1 .. 2 |-> [k \in 1 .. Len(vb[d]) |->
                     ValidationStepEvents(vr[d][k], k - 1, d - 1, 0, loggers)]]
       IN /\ loaders = [train |-> Exhausted(fresh.train),
                        val |-> <<Exhausted(fresh.val[1]), Exhausted(fresh.val[2])>>]
          /\ batch = [source |-> "val_hans", batch_idx |-> Len(vb[2]) - 1,
                      data |-> vb[2][Len(vb[2])]]
          /\ last_step = [dataloader_idx |-> 1, batch_idx |-> Len(vb[2]) - 1,
                          step |-> "hans_step"]
          /\ global_step = Len(tb)
          /\ train_outputs = [k \in 1 .. Len(tb) |-> WithLoss(tr[k])]
          /\ outputs = vr
          /\ logged =
                 UNION {Logs(te[k], 0, k - 1, k - 1) : k \in 1 .. Len(tb)}
                 \cup UNION {UNION {Logs(ve[d][k], 0, Len(tb), k - 1) : k \in 1 .. Len(vb[d])} :
                                d \in 1 .. 2}
          /\ sink =
                 UNION {Sinks(te[k], 0, k - 1, k - 1) : k \in 1 .. Len(tb)}
                 \cup UNION {UNION {Sinks(ve[d][k], 0, Len(tb), k - 1) : k \in 1 .. Len(vb[d])} :
                                d \in 1 .. 2}
    /\ pc = "validation_epoch_end" /\ current_epoch = 0
    /\ failed = Null
    /\ sample = Null /\ new_attributes = Null
    /\ hparams = Null /\ estimated_stepping_batches = 0 /\ configured = Null

SpecClassify == InitClassify /\ [][NextClassify]_vars

SpecSetup == InitSetup /\ [][NextSetup]_vars

SpecOptim == InitOptim /\ [][NextOptim]_vars

SpecEpochEnd == InitEpochEnd /\ [][NextEpochEnd]_vars

Spec == Init /\ [][Next]_vars

(***************************************************************************)
(* C1: a sample whose premise text equals its hypothesis text is TRIVIAL   *)
(* when its label is entailment (0) and NOISE for the labels 1 and 2.      *)
(***************************************************************************)
C1_EqualTextTrivialOrNoise ==
    (new_attributes # Null /\ sample.premise = sample.hypothesis) =>
        /\ new_attributes.type \in {TRIVIAL, NOISE}
        /\ (new_attributes.type = TRIVIAL) <=> (sample.label = 0)
        /\ (sample.label \in {1, 2}) => (new_attributes.type = NOISE)

C1_Witness ==
    /\ new_attributes # Null
    /\ sample.premise = sample.hypothesis
    /\ Len(sample.premise) > 0
    /\ sample.label = 2
    /\ new_attributes.type = NOISE

(***************************************************************************)
(* C2: a sample whose texts differ is HEURISTIC_E or HEURISTIC_NE exactly  *)
(* when every hypothesis token id (no special tokens) occurs among the     *)
(* premise token ids, HEURISTIC_E exactly for label 0; otherwise STANDARD. *)
(***************************************************************************)
HypothesisTokensSubset(s) ==
    \A t \in Elems(TokenizeNoSpecial(s.hypothesis)) :
        t \in Elems(TokenizeNoSpecial(s.premise))

C2_DifferentTextHeuristicOrStandard ==
    (new_attributes # Null /\ sample.premise # sample.hypothesis) =>
        /\ (new_attributes.type \in {HEURISTIC_E, HEURISTIC_NE})
               <=> HypothesisTokensSubset(sample)
        /\ HypothesisTokensSubset(sample) =>
               ((new_attributes.type = HEURISTIC_E) <=> (sample.label = 0))
        /\ ~HypothesisTokensSubset(sample) => (new_attributes.type = STANDARD)

\* the texts differ only in case, so the words differ while the token ids agree
C2_Witness ==
    /\ new_attributes # Null
    /\ sample.premise = <<"A", "b">>
    /\ sample.hypothesis = <<"a">>
    /\ sample.label = 1
    /\ new_attributes.type = HEURISTIC_NE

(***************************************************************************)
(* C6: with valid optimizer and scheduler names, configure_optimizers      *)
(* raises exactly when both or neither of warmup_steps and warmup_ratio    *)
(* are supplied; exactly one supplied value, 0 included, does not raise.   *)
(***************************************************************************)
ExactlyOneWarmupSupplied ==
    IsNone(hparams.warmup_steps) # IsNone(hparams.warmup_ratio)

C6_RaisesIffNotExactlyOne ==
    (/\ configured # Null
     /\ hparams.optimizer_name \in {"adamw", "adam"}
     /\ hparams.scheduler_name \in {"linear", "polynomial"})
        => (configured.raised <=> ~ExactlyOneWarmupSupplied)

(***************************************************************************)
(* C7: setup with num_hans_train_examples above the number of HANS-train   *)
(* rows raises, leaves the training set unaugmented (no clamping), and no  *)
(* DataLoader is built and no batch produced afterwards.                   *)
(***************************************************************************)
C7_TooManyHansExamplesFailsSetup ==
    (setup_state # "new" /\ dm.num_hans_train_examples > Len(corpus.hans_train)) =>
        /\ setup_state = "error"
        /\ Len(dm.mnli_dataset.train) = Len(corpus.mnli_train)
        /\ loaders.train = Null
        /\ loaders.val[1] = Null
        /\ batch = Null

C7_Witness ==
    /\ setup_state = "error"
    /\ Len(corpus.hans_train) = 2
    /\ dm.num_hans_train_examples = 3

(***************************************************************************)
(* C8: after a setup that returned, the training set has the MNLI-train    *)
(* rows followed by num_hans_train_examples HANS rows (none when the count *)
(* is 0), and the two validation sets hold exactly their own corpus rows;  *)
(* setup returns whenever the count does not exceed the HANS-train size.   *)
(***************************************************************************)
C8_FusedTrainingSetSize ==
    /\ (setup_state # "new" /\ dm.num_hans_train_examples <= Len(corpus.hans_train))
           => setup_state = "ready"
    /\ setup_state = "ready" =>
        LET train == dm.mnli_dataset.train
            valid == dm.mnli_dataset.validation_matched
            n == dm.num_hans_train_examples
        IN /\ Len(train) = Len(corpus.mnli_train) + (IF n > 0 THEN n ELSE 0)
           /\ n <= Len(corpus.hans_train)
           /\ \A i \in 1 .. Len(train) :
                  train[i].origin = (IF i <= Len(corpus.mnli_train) THEN "mnli" ELSE "hans")
           /\ Len(valid) = Len(corpus.mnli_validation_matched)
           /\ \A i \in 1 .. Len(valid) : valid[i].origin = "mnli"
           /\ Len(dm.hans_dataset_validation) = Len(corpus.hans_validation)

C8_Witness ==
    /\ setup_state = "ready"
    /\ dm.num_hans_train_examples = 2
    /\ Len(dm.mnli_dataset.train) = Len(corpus.mnli_train) + 2
    /\ batch # Null

(***************************************************************************)
(* C3: a per-category MNLI metric is logged at epoch end only for a        *)
(* category that at least one sample of the epoch carries, and its value   *)
(* is never NaN.                                                           *)
(***************************************************************************)
IsPerTypeKey(key) == Len(key) = 4 /\ key[2] = "mnli"

EpochRows(prefix) ==
    IF prefix = "Train" THEN dm.mnli_dataset.train ELSE dm.mnli_dataset.validation_matched

C3_EmptyCategoryNotLogged ==
    \A l \in logged :
        IsPerTypeKey(l.key) =>
            /\ l.value # NaN
            /\ \E i \in 1 .. Len(EpochRows(l.key[1])) :
                   SampleTypeName(EpochRows(l.key[1])[i].type) = l.key[3]

(***************************************************************************)
(* C4: once validation_epoch_end has run its loop over the 6 combinations  *)
(* of target label and heuristic, the loss and the accuracy of a           *)
(* combination are logged exactly when a HANS sample of the epoch has that *)
(* heuristic and that label; nothing is ever logged for an empty mask.     *)
(***************************************************************************)
BeforeHansLoop ==
    { <<"experiment.log", "Valid", "Verbose", "mnli_loss", "histogram">>,
      <<"experiment.log", "Valid", "Verbose", "mnli_loss", "histogram_seaborn">>,
      <<"log_artifact", "Valid", "mnli_epoch_end_df">>,
      <<"experiment.log", "Valid", "Verbose", "hans_loss", "histogram">>,
      <<"experiment.log", "Valid", "Verbose", "hans_loss", "histogram_seaborn">> }

HansLoopRan ==
    /\ pc # "validation_epoch_end"
    /\ failed # Null => failed.key \notin BeforeHansLoop

HansPresent(t, h) ==
    \E i \in 1 .. Len(dm.hans_dataset_validation) :
        /\ dm.hans_dataset_validation[i].heuristic = HEURISTIC_TO_INTEGER[h]
        /\ dm.hans_dataset_validation[i].label = t

HansLogged(metric, t, h) ==
    {l \in logged : l.key = <<"Valid", metric, TargetLabels[t + 1], h>>}

C4_HansCombinationLoggedIffPresent ==
    \A t \in 0 .. 1 : \A h \in DOMAIN HEURISTIC_TO_INTEGER :
        /\ \A l \in HansLogged("Hans_loss", t, h) \cup HansLogged("Hans_acc", t, h) :
               HansPresent(t, h) /\ l.value # NaN
        /\ (HansLoopRan /\ HansPresent(t, h)) =>
               /\ HansLogged("Hans_loss", t, h) # {}
               /\ HansLogged("Hans_acc", t, h) # {}

\* the first combination is empty and skipped, a later one is logged
C4_Witness ==
    /\ pc = "training_epoch_end"
    /\ ~HansPresent(0, "lexical_overlap")
    /\ HansLogged("Hans_loss", 0, "lexical_overlap") = {}
    /\ HansPresent(1, "constituent")
    /\ HansLogged("Hans_acc", 1, "constituent") # {}

(***************************************************************************)
(* C5: validation_step runs the MNLI step for source 0 and the HANS step   *)
(* for source 1, and under every interleaving the list of source 0 holds   *)
(* exactly the MNLI results of its batches, in order, and the list of      *)
(* source 1 exactly the HANS results of its batches.                       *)
(***************************************************************************)
ValidationBatches(d) ==
    Batches(IF d = 0 THEN dm.mnli_dataset.validation_matched ELSE dm.hans_dataset_validation,
            dm.batch_size)

C5_SourcesKeptApart ==
    /\ last_step # Null =>
           (last_step.step = (IF last_step.dataloader_idx = 0 THEN "mnli_step" ELSE "hans_step"))
    /\ \A k \in 1 .. Len(outputs[1]) :
           /\ "mnli_datapoint_type" \in DOMAIN outputs[1][k]
           /\ outputs[1][k] = mnli_step(ValidationBatches(0)[k], weights)
    /\ \A k \in 1 .. Len(outputs[2]) :
           /\ "heuristic" \in DOMAIN outputs[2][k]
           /\ outputs[2][k] = hans_step(ValidationBatches(1)[k], weights)
    /\ pc \in {"validate", "validation_epoch_end", "training_epoch_end"} =>
           \A d \in 0 .. 1 : Len(outputs[d + 1]) = loaders.val[d + 1].yielded
    /\ pc \in {"validation_epoch_end", "training_epoch_end"} =>
           \A d \in 0 .. 1 : Len(outputs[d + 1]) = Len(ValidationBatches(d))

\* the pass ended with a batch of source 0, so batches of source 1 came before it
C5_Witness ==
    /\ pc = "validation_epoch_end"
    /\ batch.source = "val_mnli"
    /\ Len(outputs[1]) = 2
    /\ Len(outputs[2]) = 2

(***************************************************************************)
(* C9: training_step and validation_step dump a batch for debugging only   *)
(* for batch index 0 and only in the epochs 0 and 1.                       *)
(***************************************************************************)
C9_DebugDumpOnlyInFirstTwoEpochs ==
    \A c \in sink :
        c.key[1] = "log_text" => (c.batch_idx = 0 /\ c.epoch \in {0, 1})

(***************************************************************************)
(* C10: a call of the logging/artifact sink that fails during a step or an *)
(* epoch end does not abort the run.                                       *)
(***************************************************************************)
C10_SinkFailureDoesNotAbort ==
    failed # Null => pc # "aborted"

(***************************************************************************)
(* C11: configure_optimizers raises, returning no optimizer and no         *)
(* scheduler, whenever optimizer_name is not adamw or adam or              *)
(* scheduler_name is not linear or polynomial; for valid names with        *)
(* exactly one of warmup_steps and warmup_ratio supplied it returns one    *)
(* optimizer and one scheduler stepped once per optimization step.         *)
(***************************************************************************)
ValidNames ==
    /\ hparams.optimizer_name \in {"adamw", "adam"}
    /\ hparams.scheduler_name \in {"linear", "polynomial"}

ReturnsOneOptimizerOneScheduler ==
    /\ ~configured.raised
    /\ Len(configured.optimizers) = 1
    /\ Len(configured.schedulers) = 1
    /\ configured.schedulers[1].interval = "step"
    /\ configured.schedulers[1].frequency = 1

C11_InvalidNamesRaiseValidNamesReturn ==
    configured # Null =>
        /\ ~ValidNames =>
               /\ configured.raised
               /\ "optimizers" \notin DOMAIN configured
               /\ "schedulers" \notin DOMAIN configured
        /\ (ValidNames /\ ExactlyOneWarmupSupplied) => ReturnsOneOptimizerOneScheduler

(***************************************************************************)
(* C13: the error raised for an invalid optimizer_name carries the given   *)
(* optimizer_name, and the error raised for an invalid scheduler_name      *)
(* carries the given scheduler_name.                                       *)
(***************************************************************************)
C13_ErrorCarriesOffendingValue ==
    (configured # Null /\ configured.raised) =>
        /\ configured.text = "Invalid optimizer_name given: " =>
               configured.value = hparams.optimizer_name
        /\ configured.text = "Invalid scheduler_name given: " =>
               configured.value = hparams.scheduler_name

(***************************************************************************)
(* C12: at an MNLI epoch end (Train or Valid) the concatenated type, loss  *)
(* and correctness arrays have one length N, N is the sum of the sample    *)
(* counts of the epoch's step outputs, and the numbers of samples the five *)
(* category masks select add up to N.                                      *)
(***************************************************************************)
MnliEpochEndLogged(prefix) ==
    \E l \in logged : l.epoch = current_epoch /\ l.key[1] = prefix /\ IsPerTypeKey(l.key)

SelectedBy(mask) == Cardinality({i \in 1 .. Len(mask) : mask[i]})

EpochArraysAgree(mnli_results) ==
    LET a == MnliEpochArrays(mnli_results)
        N == Sum([i \in 1 .. Len(mnli_results) |-> mnli_results[i].mnli_datapoint_count])
    IN /\ Len(a.types) = N
       /\ Len(a.losses) = N
       /\ Len(a.true_preds) = N
       /\ Sum([k \in 1 .. Len(SampleTypes) |->
                 SelectedBy(TypeMask(a.types, SampleTypes[k]))]) = N

C12_EpochArraysParallelAndPartitioned ==
    /\ (pc = "validation_epoch_end" \/ MnliEpochEndLogged("Valid")) =>
           EpochArraysAgree(outputs[1])
    /\ (pc = "training_epoch_end" \/ MnliEpochEndLogged("Train")) =>
           EpochArraysAgree(train_outputs)

C12_Witness ==
    /\ pc = "training_epoch_end"
    /\ MnliEpochEndLogged("Valid")
    /\ Len(outputs[1]) >= 2
    /\ Len(MnliEpochArrays(outputs[1]).types) >= 3
    /\ SelectedBy(TypeMask(MnliEpochArrays(outputs[1]).types, NOISE)) = 1
    /\ SelectedBy(TypeMask(MnliEpochArrays(outputs[1]).types, STANDARD)) = 2
    /\ EpochArraysAgree(outputs[1])

====
